---- MODULE Spec2Model ----
(***************************************************************************)
(* The timed test-attempt engine of the coaching API: test definition,     *)
(* the start window, and the attempt lifecycle (start, get-attempt,        *)
(* autosave, submit) over the tables tests and test_attempts.              *)
(*                                                                         *)
(* Time is the millisecond epoch value of Date; the clock advances in      *)
(* whole minutes.  Nullable columns and optional request fields are        *)
(* records [kind, v]; v is 0 unless kind carries a number.                 *)
(***************************************************************************)
EXTENDS Integers, Sequences, FiniteSets, TLC

\* ---------------------------------------------------------------- bounds
MaxMinute == 1

MsPerMinute == 60 * 1000
DefaultDurationMinutes == 30

\* ---------------------------------------------------------------- values
Null == [kind |-> "null", v |-> 0]
Undefined == [kind |-> "undefined", v |-> 0]
EmptyString == [kind |-> "empty", v |-> 0]
BadDate == [kind |-> "bad", v |-> 0]
Ts(ms) == [kind |-> "ts", v |-> ms]
Int_(n) == [kind |-> "int", v |-> n]
Bool_(b) == [kind |-> "bool", v |-> IF b THEN 1 ELSE 0]

\* JavaScript truthiness of a nullable value
Truthy(x) ==
    /\ x.kind \notin {"null", "undefined", "empty"}
    /\ ~(x.kind = "int" /\ x.v = 0)

\* new Date(value).getTime() is NaN
IsNaNDate(x) == x.kind # "ts"

NoId == <<>>
UndefinedAnswer == "<undefined>"

\* ---------------------------------------------------------------- principals
\* an email is <<local part, domain>>
Tina == <<"tina", "x.com">>
SamX == <<"sam", "x.com">>
SamY == <<"sam", "y.com">>

Users ==
    { [email |-> Tina, institution |-> "x", role |-> "staff"],
      [email |-> SamX, institution |-> "x", role |-> "student"],
      [email |-> SamY, institution |-> "y", role |-> "student"] }

\* email.split("@")[0]
EmailPrefix(email) == email[1]

\* ---------------------------------------------------------------- catalog
\* the questions table: a mcq_single question, a numerical one, one whose
\* content has no question_type, one of a type submit does not grade, a
\* numerical one whose answer is not a number, and one restricted to an
\* institution
Questions ==
    { [id |-> "q1", question_type |-> "mcq_single", answer |-> "B", institutions |-> {}],
      [id |-> "q2", question_type |-> "numerical", answer |-> "3.14", institutions |-> {}],
      [id |-> "q3", question_type |-> "", answer |-> "C", institutions |-> {}],
      [id |-> "q4", question_type |-> "subjective", answer |-> "X", institutions |-> {}],
      [id |-> "q5", question_type |-> "numerical", answer |-> "n/a", institutions |-> {}],
      [id |-> "q6", question_type |-> "mcq_single", answer |-> "D", institutions |-> {"y"}] }

Raj == <<"raj", "x.com">>
Yara == <<"yara", "y.com">>

SeedQuestionSets ==
    { [id |-> "qs1", name |-> "Algebra", question_ids |-> <<"q1", "q2", "q3", "q4">>,
       created_by |-> Tina],
      [id |-> "qs2", name |-> "Optics", question_ids |-> <<"q2", "q6">>,
       created_by |-> Raj],
      [id |-> "qs3", name |-> "Empty", question_ids |-> <<>>, created_by |-> Tina],
      [id |-> "qs4", name |-> "Waves", question_ids |-> <<"q1">>, created_by |-> Yara] }

\* the student_sets table
StudentSets ==
    { [id |-> "ss1", students |-> {SamX}],
      [id |-> "ss2", students |-> {SamY}],
      [id |-> "ss3", students |-> {}] }

\* the columns sets_created and access_sets of the users table, by email
SeedUsers ==
    (Tina :> [sets_created |-> <<"qs1", "qs3">>, access_sets |-> <<>>])
      @@ (Raj :> [sets_created |-> <<"qs2">>, access_sets |-> <<"qs1">>])
      @@ (SamX :> [sets_created |-> <<>>, access_sets |-> <<"qs1", "qs2">>])
      @@ (SamY :> [sets_created |-> <<>>, access_sets |-> <<>>])
      @@ (Yara :> [sets_created |-> <<"qs4">>, access_sets |-> <<>>])

\* request inputs of create-test
NameInputs == {"", "Mock 1"}
QuestionSetIdInputs == {<<>>, <<"qs1">>, <<"qs2">>, <<"qs3">>}
DurationInputs == {Undefined, Int_(0), Int_(1)}
StartAtInputs == {Undefined, BadDate, Ts(MsPerMinute)}
LastStartAtInputs == {Undefined, Ts(0)}

\* how far the store's clock may be ahead of the handler's, in ms
DbLags == {0, 1}

\* ---------------------------------------------------------------- state
VARIABLES now, tests, test_attempts, question_sets, users, inflight, win, calc

vars == <<now, tests, test_attempts, question_sets, users, inflight, win, calc>>

Procs == {1, 2}

TinaUser == [email |-> Tina, institution |-> "x", role |-> "staff"]

RajUser == [email |-> Raj, institution |-> "x", role |-> "staff"]

YaraUser == [email |-> Yara, institution |-> "y", role |-> "staff"]

AdminUser == [email |-> <<"adam", "x.com">>, institution |-> "x", role |-> "admin"]

\* a start request between its reads and its write: what the handler has read
NoBody == [answers |-> [kind |-> "undefined", list |-> <<>>]]

IdleReq ==
    [pc |-> "idle", user |-> TinaUser, testId |-> NoId, now |-> 0,
     test |-> {}, existing |-> {}, body |-> NoBody]

\* a response: the status code and the fields of the body
Reply(status, error) ==
    [status |-> status, error |-> error, attemptId |-> NoId, startAt |-> Null,
     lastStartAt |-> Null, score |-> 0, total |-> 0, percentage |-> 0]

\* what a handler does: the table it leaves and the response it sends
Outcome(rows, reply) == [rows |-> rows, res |-> reply]

NoWin == [test |-> [start_at |-> Null, last_start_at |-> Null], now |-> 0,
          done |-> FALSE, result |-> TRUE]

\* the grading of a submission, or the percentage of a score, applied to inputs
NoGrading == [score |-> 0, total |-> 0, perQuestion |-> {}]

NoCalc == [fn |-> "none", questionIds |-> <<>>, answers |-> <<>>, score |-> 0,
           total |-> 0, done |-> FALSE, graded |-> NoGrading, percentage |-> 0]

Init ==
    /\ now = 0
    /\ tests = {}
    /\ test_attempts = {}
    /\ question_sets = SeedQuestionSets
    /\ inflight = [p \in Procs |-> IdleReq]
    /\ win = NoWin
    /\ calc = NoCalc
    /\ users = SeedUsers

\* ---------------------------------------------------------------- helpers
RECURSIVE SeqToSet(_)
SeqToSet(s) == IF s = <<>> THEN {} ELSE {Head(s)} \cup SeqToSet(Tail(s))

RECURSIVE uniqueFrom(_, _)
uniqueFrom(values, seen) ==
    IF values = <<>> THEN <<>>
    ELSE IF Head(values) = "" \/ Head(values) \in seen
         THEN uniqueFrom(Tail(values), seen)
         ELSE <<Head(values)>> \o uniqueFrom(Tail(values), seen \cup {Head(values)})

uniqueArray_KeepAll(values) == SelectSeq(values, LAMBDA v : v # "")

\* [...new Set(values.filter(Boolean))]
uniqueArray(values) == uniqueFrom(values, {})

RECURSIVE flatMapIds(_)
flatMapIds(sets) ==
    IF sets = <<>> THEN <<>> ELSE Head(sets).question_ids \o flatMapIds(Tail(sets))

parseTimestamp(value) ==
    IF ~Truthy(value) THEN Null
    ELSE IF IsNaNDate(value) THEN Null ELSE value

computeEndAt(startedAt, durationMinutes) ==
    IF ~Truthy(startedAt) THEN Null
    ELSE IF IsNaNDate(startedAt) THEN Null
    ELSE Ts(startedAt.v + durationMinutes * 60 * 1000)

isStartWindowOpen_NoUpper(test, nowTime) ==
    IF Truthy(test.start_at) /\ ~IsNaNDate(test.start_at) /\ nowTime < test.start_at.v
    THEN FALSE
    ELSE TRUE

isStartWindowOpen_Exclusive(test, nowTime) ==
    IF Truthy(test.start_at) /\ ~IsNaNDate(test.start_at) /\ nowTime <= test.start_at.v
    THEN FALSE
    ELSE IF Truthy(test.last_start_at) /\ ~IsNaNDate(test.last_start_at)
            /\ nowTime >= test.last_start_at.v
         THEN FALSE
         ELSE TRUE

isStartWindowOpen(test, nowTime) ==
    IF Truthy(test.start_at) /\ ~IsNaNDate(test.start_at) /\ nowTime < test.start_at.v
    THEN FALSE
    ELSE IF Truthy(test.last_start_at) /\ ~IsNaNDate(test.last_start_at)
            /\ nowTime > test.last_start_at.v
         THEN FALSE
         ELSE TRUE

\* supabase .single(): data is the row when exactly one row matches and is
\* null (with an error) otherwise; the result is the set of zero or one row
Single(rows) == IF Cardinality(rows) = 1 THEN rows ELSE {}

TheRow(data) == CHOOSE r \in data : TRUE

\* the orders in which the store may return a set of rows
Orderings(rows) ==
    { s \in [1..Cardinality(rows) -> rows] : \A i, j \in DOMAIN s : i # j => s[i] # s[j] }

\* test.duration_minutes || 30
DurationOr30(test) ==
    IF Truthy(test.duration_minutes) THEN test.duration_minutes.v
    ELSE DefaultDurationMinutes

\* ---------------------------------------------------------------- clock
Tick ==
    /\ now + MsPerMinute <= MaxMinute * MsPerMinute
    /\ now' = now + MsPerMinute
    /\ UNCHANGED <<tests, test_attempts, question_sets, inflight, win, calc, users>>

\* ---------------------------------------------------------------- create test
TestId(user, t) == <<"test", EmailPrefix(user.email), t>>

\* a field that should hold a list: absent, or the list
NoList == [kind |-> "undefined", list |-> <<>>]
List(l) == [kind |-> "array", list |-> l]

\* the request bodies of create-test
CreateBodies ==
    [name : NameInputs, questionSetIds : QuestionSetIdInputs,
     durationMinutes : DurationInputs, isPublic : {Undefined},
     assignedStudentSets : {NoList}, startAt : StartAtInputs,
     lastStartAt : LastStartAtInputs]

\* the lists of set ids a request may name: own sets, another's set, a set
\* that does not exist, a set named twice
OwnershipInputs ==
    { <<"qs1">>, <<"qs2">>, <<"qs3">>, <<"qs9">>, <<"qs1", "qs3">>, <<"qs3", "qs1">>,
      <<"qs1", "qs2">>, <<"qs1", "qs1">> }

OwnershipBodies ==
    [name : {"Mock 1"}, questionSetIds : OwnershipInputs, durationMinutes : {Undefined},
     isPublic : {Undefined}, assignedStudentSets : {NoList}, startAt : {Undefined},
     lastStartAt : {Undefined}]

\* bodies that differ in who may see the test
VisibilityBodies ==
    [name : {"Mock 1"}, questionSetIds : {<<"qs1">>, <<"qs2">>, <<"qs4">>},
     durationMinutes : {Undefined}, isPublic : {Undefined, Bool_(FALSE)},
     assignedStudentSets : {NoList, List(<<"ss1">>), List(<<"ss2">>),
                            List(<<"ss3", "ss1">>)},
     startAt : {Undefined}, lastStartAt : {Undefined}]

\* create-test on the table rows; ordered is the order in which the store
\* returned the named question sets
CreateTestOutcome(rows, user, body, ordered, t) ==
    LET durationMinutes == IF body.durationMinutes = Undefined
                           THEN Int_(DefaultDurationMinutes) ELSE body.durationMinutes
        ownedSets == SelectSeq(ordered, LAMBDA set : set.created_by = user.email)
        questionIds == uniqueArray(flatMapIds(ownedSets))
        testId == TestId(user, t)
    IN
    IF user.role # "staff" THEN Outcome(rows, Reply(403, "Only staff can create tests"))
    ELSE IF body.name = "" THEN Outcome(rows, Reply(400, "Test name is required"))
    ELSE IF Len(body.questionSetIds) = 0
    THEN Outcome(rows, Reply(400, "Select at least one question set"))
    ELSE IF Len(ownedSets) # Len(body.questionSetIds)
    THEN Outcome(rows, Reply(403, "You can only use your own question sets"))
    ELSE IF Len(questionIds) = 0
    THEN Outcome(rows, Reply(400, "Selected sets have no questions"))
    ELSE IF \E r \in rows : r.id = testId
    THEN Outcome(rows, Reply(500, "Failed to create test"))
    ELSE Outcome(rows \cup
                   { [id |-> testId,
                      name |-> body.name,
                      institution |-> user.institution,
                      created_by |-> user.email,
                      question_set_ids |-> body.questionSetIds,
                      question_ids |-> questionIds,
                      duration_minutes |-> durationMinutes,
                      is_public |-> IF body.isPublic = Undefined THEN TRUE
                                    ELSE body.isPublic.v = 1,
                      assigned_student_sets |-> SeqToSet(body.assignedStudentSets.list),
                      start_at |-> parseTimestamp(body.startAt),
                      last_start_at |-> parseTimestamp(body.lastStartAt)] },
                 Reply(200, ""))

\* the question sets named by the request, as the store may return them
NamedSets(questionSetIds) ==
    Orderings({ s \in question_sets : s.id \in SeqToSet(questionSetIds) })

\* the model follows one test: create-test is taken while the table is empty
CreateTest ==
    \E user \in Users, body \in CreateBodies :
    \E ordered \in NamedSets(body.questionSetIds) :
      /\ tests = {}
      /\ tests' = CreateTestOutcome(tests, user, body, ordered, now).rows
      /\ UNCHANGED <<now, test_attempts, question_sets, inflight, win, calc, users>>

\* ---------------------------------------------------------------- list tests
\* the response of list-tests: the status and the tests returned
Listing(status, error, rows) == [status |-> status, error |-> error, tests |-> rows]

StudentSetIds_None(email) == {}

\* student_sets .contains("students", [email]), then .map((set) => set.id)
StudentSetIds(email) == { set.id : set \in { set \in StudentSets : email \in set.students } }

\* tests.filter((test) => test.created_by === req.user.email)
StaffTests(rows, email) == { test \in rows : test.created_by = email }

ListTestsOutcome(rows, user) ==
    LET institutionTests == { test \in rows : test.institution = user.institution } IN
    IF user.role = "staff"
    THEN Listing(200, "", StaffTests(institutionTests, user.email))
    ELSE IF user.role # "student" THEN Listing(403, "Access denied", {})
    ELSE LET studentSetIds == StudentSetIds(user.email) IN
         Listing(200, "",
                 { test \in institutionTests :
                     \/ test.is_public
                     \/ \E setId \in test.assigned_student_sets : setId \in studentSetIds })

\* the callers of create-test and list-tests
Callers == Users \cup {RajUser, YaraUser, AdminUser}

\* create-test by any caller, with any visibility
CreateTestVisible ==
    \E user \in Callers, body \in VisibilityBodies :
    \E ordered \in NamedSets(body.questionSetIds) :
      /\ tests' = CreateTestOutcome(tests, user, body, ordered, now).rows
      /\ UNCHANGED <<now, test_attempts, question_sets, users, inflight, win, calc>>

NextList == CreateTestVisible

SpecList == Init /\ [][NextList]_vars


\* ---------------------------------------------------------------- load questions
\* the response of load-test-questions: the status and the questions sent
QuestionsReply(status, error, questions) ==
    [status |-> status, error |-> error, questions |-> questions]

\* { id: question.id, ...question.content }: the row's own columns are dropped
normalizeQuestion(question) ==
    [id |-> question.id, question_type |-> question.question_type,
     answer |-> question.answer]

\* institutions.length === 0 || institutions.includes(test.institution)
ServedTo(question, institution) ==
    question.institutions = {} \/ institution \in question.institutions

LoadQuestionsOutcome(rows, user, testId) ==
    LET test == Single({ t \in rows : t.id = testId }) IN
    IF test = {} THEN QuestionsReply(404, "Test not found", {})
    ELSE IF user.role = "staff" /\ TheRow(test).created_by # user.email
    THEN QuestionsReply(403, "Access denied", {})
    ELSE IF user.role \notin {"student", "staff"}
    THEN QuestionsReply(403, "Access denied", {})
    ELSE LET questionIds == TheRow(test).question_ids IN
         IF Len(questionIds) = 0 THEN QuestionsReply(200, "", {})
         ELSE QuestionsReply(200, "",
                  { normalizeQuestion(q) :
                      q \in { q \in Questions :
                                /\ q.id \in SeqToSet(questionIds)
                                /\ ServedTo(q, TheRow(test).institution) } })

\* ---------------------------------------------------------------- attempts
MissingTestId == <<"test", "nobody", 0>>

TestIdInputs == { t.id : t \in tests } \cup {MissingTestId}

AttemptId(user, t) == <<"attempt", EmailPrefix(user.email), t>>

EmptyResult == [present |-> FALSE, perQuestion |-> {}]

\* the row stored by start's insert: the supplied columns and the schema defaults
NewAttempt(attemptId, testId, email, startedAt, endAt) ==
    [id |-> attemptId,
     test_id |-> testId,
     student_email |-> email,
     status |-> "in_progress",
     started_at |-> startedAt,
     end_at |-> endAt,
     last_saved_at |-> Null,
     submitted_at |-> Null,
     duration_seconds |-> 0,
     last_question_index |-> 0,
     score |-> 0,
     total |-> 0,
     answers |-> <<>>,
     question_status |-> {},
     result |-> EmptyResult]

TestById(testId) == Single({ t \in tests : t.id = testId })

AttemptOf_AnyStudent(rows, testId, email) == Single({ a \in rows : a.test_id = testId })

\* test_attempts .eq("test_id", testId).eq("student_email", email).single()
AttemptOf(rows, testId, email) ==
    Single({ a \in rows : a.test_id = testId /\ a.student_email = email })

\* update(...).eq("id", id): every row with that id gets the new end_at
PatchEndAt(rows, id, endAt) ==
    { IF a.id = id THEN [a EXCEPT !.end_at = endAt] ELSE a : a \in rows }

\* the lazy end_at backfill shared by start and get-attempt
BackfillEndAt(rows, attempt, test) ==
    IF Truthy(attempt.end_at) THEN rows
    ELSE LET endAt == computeEndAt(attempt.started_at, DurationOr30(test)) IN
         IF Truthy(endAt) THEN PatchEndAt(rows, attempt.id, endAt) ELSE rows

\* insert into test_attempts: the primary key on id is the only constraint
InsertAttempt_UniquePair(rows, row) ==
    IF \E a \in rows : a.id = row.id
          \/ (a.test_id = row.test_id /\ a.student_email = row.student_email)
    THEN rows ELSE rows \cup {row}

InsertAttempt(rows, row) ==
    IF \E a \in rows : a.id = row.id THEN rows ELSE rows \cup {row}

\* ---------------------------------------------------------------- start
StartRead_NoLookup(rows, user, testId, t) ==
    [pc |-> "start", user |-> user, testId |-> testId, now |-> t,
     test |-> TestById(testId), existing |-> {}, body |-> NoBody]

\* what start has read once the existing-attempt lookup has returned
StartRead(rows, user, testId, t) ==
    [pc |-> "start", user |-> user, testId |-> testId, now |-> t,
     test |-> TestById(testId), existing |-> AttemptOf(rows, testId, user.email),
     body |-> NoBody]

StartRejectsSubmitted_Never(existing) == FALSE

\* existingAttempt && existingAttempt.status === "submitted"
StartRejectsSubmitted(existing) ==
    existing # {} /\ TheRow(existing).status = "submitted"

\* the rest of start, from the lookup's result on, against the table rows at
\* time t; dbLag is how far the store's NOW() (the started_at default) is from
\* the handler's clock
StartWrite(rows, rd, t, dbLag) ==
    LET user == rd.user IN
    IF user.role # "student"
    THEN Outcome(rows, Reply(403, "Only students can start tests"))
    ELSE IF rd.test = {}
    THEN Outcome(rows, Reply(404, "Test not found"))
    ELSE LET test == TheRow(rd.test) IN
    IF ~isStartWindowOpen(test, rd.now)
    THEN Outcome(rows, [Reply(403, "Test start window is not open") EXCEPT
                          !.startAt = test.start_at, !.lastStartAt = test.last_start_at])
    ELSE IF StartRejectsSubmitted(rd.existing)
    THEN Outcome(rows, Reply(400, "Test already submitted"))
    ELSE IF rd.existing # {}
    THEN Outcome(BackfillEndAt(rows, TheRow(rd.existing), test),
                 [Reply(200, "") EXCEPT !.attemptId = TheRow(rd.existing).id])
    ELSE LET attemptId == AttemptId(user, t)
             endAt == computeEndAt(Ts(rd.now), DurationOr30(test))
             inserted == InsertAttempt(rows, NewAttempt(attemptId, rd.testId, user.email,
                                                        Ts(t + dbLag), endAt))
         IN
         IF inserted = rows
         THEN Outcome(rows, Reply(500, "Failed to start test"))
         ELSE Outcome(inserted, [Reply(200, "") EXCEPT !.attemptId = attemptId])

\* a start request that runs to completion
StartOutcome(rows, user, testId, t, dbLag) ==
    StartWrite(rows, StartRead(rows, user, testId, t), t, dbLag)

Start ==
    \E user \in Users, testId \in TestIdInputs, dbLag \in DbLags :
      /\ test_attempts' = StartOutcome(test_attempts, user, testId, now, dbLag).rows
      /\ UNCHANGED <<now, tests, question_sets, inflight, win, calc, users>>

\* ---------------------------------------------------------------- get attempt
GetAttemptOutcome(rows, user, testId) ==
    LET test == TestById(testId)
        attempt == AttemptOf(rows, testId, user.email)
    IN
    IF user.role # "student"
    THEN Outcome(rows, Reply(403, "Only students can access attempts"))
    ELSE IF test = {} THEN Outcome(rows, Reply(404, "Test not found"))
    ELSE IF attempt = {} THEN Outcome(rows, Reply(404, "Attempt not found"))
    ELSE Outcome(BackfillEndAt(rows, TheRow(attempt), TheRow(test)),
                 [Reply(200, "") EXCEPT !.attemptId = TheRow(attempt).id])

GetAttempt ==
    \E user \in Users, testId \in TestIdInputs :
      /\ test_attempts' = GetAttemptOutcome(test_attempts, user, testId).rows
      /\ UNCHANGED <<now, tests, question_sets, inflight, win, calc, users>>

\* ---------------------------------------------------------------- autosave
\* request bodies: kind says what the field holds, the other field its value
AnswersB == <<[questionId |-> "q1", answer |-> "B"], [questionId |-> "q2", answer |-> "3.141"]>>
AnswersA == <<[questionId |-> "q1", answer |-> "A"]>>

\* autosave bodies: nothing usable, the answers only, the other two fields only
SaveBodies ==
    { [answers |-> [kind |-> "string", list |-> <<>>],
       questionStatus |-> [kind |-> "null", map |-> {}],
       lastQuestionIndex |-> Undefined],
      [answers |-> [kind |-> "array", list |-> AnswersA],
       questionStatus |-> [kind |-> "undefined", map |-> {}],
       lastQuestionIndex |-> Undefined],
      [answers |-> [kind |-> "undefined", list |-> <<>>],
       questionStatus |-> [kind |-> "object", map |-> {<<"q1", "visited">>}],
       lastQuestionIndex |-> Int_(1)] }

\* every shape of the three fields: answers a list or not, questionStatus a
\* mapping, an array (index to element) or not an object, lastQuestionIndex a
\* finite number or not
SaveInputs ==
    [answers : { [kind |-> "undefined", list |-> <<>>], [kind |-> "string", list |-> <<>>],
                 [kind |-> "array", list |-> <<>>], [kind |-> "array", list |-> AnswersA] },
     questionStatus : { [kind |-> "undefined", map |-> {}], [kind |-> "null", map |-> {}],
                        [kind |-> "string", map |-> {}],
                        [kind |-> "object", map |-> {<<"q2", "answered">>}],
                        [kind |-> "array", map |-> {<<"0", "visited">>}] },
     lastQuestionIndex : {Undefined, Null, [kind |-> "string", v |-> 2], Int_(2)}]

\* update(updates).eq("id", id): typeof questionStatus === "object" holds for
\* an array too
ApplyUpdates(rows, id, body, savedAt) ==
    { IF a.id # id THEN a
      ELSE [a EXCEPT
              !.last_saved_at = savedAt,
              !.answers = IF body.answers.kind = "array" THEN body.answers.list ELSE @,
              !.question_status = IF body.questionStatus.kind \in {"object", "array"}
                                  THEN body.questionStatus.map ELSE @,
              !.last_question_index = IF body.lastQuestionIndex.kind = "int"
                                      THEN body.lastQuestionIndex.v ELSE @]
      : a \in rows }

AutosaveRejectsSubmitted_Never(attempt) == FALSE

\* attempt.status === "submitted" in autosave
AutosaveRejectsSubmitted(attempt) == attempt.status = "submitted"

\* the rest of autosave, from the lookup's result attempt on, against the
\* table rows at time t
AutosaveWrite(rows, user, attempt, body, t) ==
    IF user.role # "student"
    THEN Outcome(rows, Reply(403, "Only students can save attempts"))
    ELSE IF attempt = {} THEN Outcome(rows, Reply(404, "Attempt not found"))
    ELSE IF AutosaveRejectsSubmitted(TheRow(attempt))
    THEN Outcome(rows, Reply(400, "Attempt already submitted"))
    ELSE Outcome(ApplyUpdates(rows, TheRow(attempt).id, body, Ts(t)),
                 [Reply(200, "") EXCEPT !.attemptId = TheRow(attempt).id])

\* an autosave request that runs to completion
AutosaveOutcome(rows, user, testId, body, t) ==
    AutosaveWrite(rows, user, AttemptOf(rows, testId, user.email), body, t)

Autosave ==
    \E user \in Users, testId \in TestIdInputs, body \in SaveBodies :
      /\ test_attempts' = AutosaveOutcome(test_attempts, user, testId, body, now).rows
      /\ UNCHANGED <<now, tests, question_sets, inflight, win, calc, users>>

\* ---------------------------------------------------------------- submit
\* JavaScript numbers are IEEE-754 binary64.  A non-negative finite double is
\* the set of the exponents of its binary digits; a quotient is cut after
\* FractionBits digits and the rest is kept as one sticky digit below them.
MantissaBits == 53
FractionBits == 64
BitRange == (0 - FractionBits - 1)..20

MaxOf(S) == CHOOSE m \in S : \A n \in S : n <= m

\* the carry into digit i of A + B, the borrow into digit i of A - B
Carry(A, B, i) ==
    \E j \in BitRange : /\ j < i /\ j \in A /\ j \in B
                        /\ \A k \in (j + 1)..(i - 1) : k \in A \/ k \in B

Add(A, B) == { i \in BitRange : ((i \in A) # (i \in B)) # Carry(A, B, i) }

Borrow(A, B, i) ==
    \E j \in BitRange : /\ j < i /\ j \notin A /\ j \in B
                        /\ \A k \in (j + 1)..(i - 1) : ~(k \in A /\ k \notin B)

\* A - B for A >= B
Sub(A, B) == { i \in BitRange : ((i \in A) # (i \in B)) # Borrow(A, B, i) }

Less(A, B) == A # B /\ MaxOf((A \ B) \cup (B \ A)) \in B

Shift(S, k) == { i + k : i \in S }

RECURSIVE Pow2Mod(_, _)
Pow2Mod(k, t) ==
    IF k = 0 THEN 1 % t
    ELSE LET h == Pow2Mod(k \div 2, t) IN (h * h * (IF k % 2 = 1 THEN 2 ELSE 1)) % t

\* (r * 2^k) mod t
Remainder(r, t, k) == (r * Pow2Mod(k, t)) % t

IntBits(n) == { i \in 0..20 : (n \div 2^i) % 2 = 1 }

\* the binary digits of s / t
Quotient(s, t) ==
    IntBits(s \div t)
      \cup { 0 - k : k \in { k \in 1..FractionBits : 2 * Remainder(s % t, t, k - 1) >= t } }
      \cup (IF Remainder(s % t, t, FractionBits) # 0 THEN {0 - FractionBits - 1} ELSE {})

\* round to nearest, ties to even
RoundToDouble(S) ==
    IF S = {} THEN {}
    ELSE LET last == MaxOf(S) - MantissaBits + 1
             kept == { i \in S : i >= last }
         IN IF (last - 1) \in S /\ ((\E i \in S : i < last - 1) \/ last \in S)
            THEN Add(kept, {last}) ELSE kept

\* the double nearest to s / t: a decimal literal, or the quotient of two integers
Double(s, t) == RoundToDouble(Quotient(s, t))

\* x * 100
Times100(S) == RoundToDouble(Add(Add(Shift(S, 6), Shift(S, 5)), Shift(S, 2)))

IntValue(S) == CHOOSE n \in 0..127 : IntBits(n) = { i \in S : i >= 0 }

\* Math.round: the nearest integer, a tie goes up
MathRound(S) == IntValue(S) + (IF -1 \in S THEN 1 ELSE 0)

\* Math.abs(a - b)
AbsDiff(A, B) == RoundToDouble(IF Less(A, B) THEN Sub(B, A) ELSE Sub(A, B))

NaN == [kind |-> "nan", v |-> 0]
Num(thousandths) == [kind |-> "num", v |-> thousandths]

\* the answer strings that start with a decimal literal, and the literal each
\* starts with, in thousandths
Decimals ==
    ("3.14" :> 3140) @@ ("3.141" :> 3141) @@ ("3.15" :> 3150) @@ ("3.13" :> 3130)
      @@ ("3.16" :> 3160) @@ ("3.14abc" :> 3140) @@ ("5" :> 5000)

\* parseFloat: the number a string starts with, NaN for any other value
parseFloat(s) == IF s \in DOMAIN Decimals THEN Num(Decimals[s]) ELSE NaN

DecimalValues == { Decimals[s] : s \in DOMAIN Decimals }

\* Math.abs(userNum - correctNum) < 0.01 for the numbers the literals denote
WithinTolerance ==
    [a \in DecimalValues, b \in DecimalValues |->
        Less(AbsDiff(Double(a, 1000), Double(b, 1000)), Double(1, 100))]

RECURSIVE answerMapGet(_, _)
\* new Map(entries).get(questionId): the last entry for the key wins
answerMapGet(answers, questionId) ==
    IF answers = <<>> THEN UndefinedAnswer
    ELSE IF answers[Len(answers)].questionId = questionId
         THEN answers[Len(answers)].answer
         ELSE answerMapGet(SubSeq(answers, 1, Len(answers) - 1), questionId)

QuestionType_NoDefault(question) == question.question_type

QuestionType_AlwaysMcq(question) ==
    IF question.question_type = "numerical" THEN "numerical" ELSE "mcq_single"

\* question_type || "mcq_single"
QuestionType(question) ==
    IF question.question_type = "" THEN "mcq_single" ELSE question.question_type

\* userAnswer === correctAnswer
McqCorrect(userAnswer, correctAnswer) == userAnswer = correctAnswer

NumericalCorrect(userAnswer, correctAnswer) ==
    LET userNum == parseFloat(userAnswer)
        correctNum == parseFloat(correctAnswer)
    IN /\ userNum.kind = "num"
       /\ correctNum.kind = "num"
       /\ WithinTolerance[userNum.v, correctNum.v]

Entry(question, userAnswer, isCorrect) ==
    [questionId |-> question.id, correctAnswer |-> question.answer,
     userAnswer |-> userAnswer, isCorrect |-> isCorrect]

RECURSIVE GradeLoop(_, _, _)
\* questions.forEach: score, total and perQuestion after the rows in questions
GradeLoop(questions, answers, acc) ==
    IF questions = {} THEN acc
    ELSE LET question == CHOOSE q \in questions : TRUE
             rest == questions \ {question}
             questionType == QuestionType(question)
             userAnswer == answerMapGet(answers, question.id)
             isCorrect == IF questionType = "mcq_single"
                          THEN McqCorrect(userAnswer, question.answer)
                          ELSE NumericalCorrect(userAnswer, question.answer)
         IN IF questionType \in {"mcq_single", "numerical"}
            THEN GradeLoop(rest, answers,
                           [score |-> acc.score + (IF isCorrect THEN 1 ELSE 0),
                            total |-> acc.total + 1,
                            perQuestion |-> acc.perQuestion
                                              \cup {Entry(question, userAnswer, isCorrect)}])
            ELSE GradeLoop(rest, answers, acc)

\* the rows of questions whose id is among questionIds, graded
GradeSubmission(questionIds, answers) ==
    GradeLoop({ q \in Questions : q.id \in SeqToSet(questionIds) }, answers, NoGrading)

Max(a, b) == IF a > b THEN a ELSE b

\* the totals a percentage is computed for
MaxScored == 4
Totals == (1..MaxScored) \cup {8, 40}

\* Math.round((score / total) * 100)
RoundedPercent ==
    [total \in Totals |-> [score \in 0..total |-> MathRound(Times100(Double(score, total)))]]

\* total ? Math.round((score / total) * 100) : 0
Percentage(score, total) == IF total = 0 THEN 0 ELSE RoundedPercent[total][score]

\* submit bodies: no answers field, or a list
SubmitBodies ==
    { [answers |-> [kind |-> "undefined", list |-> <<>>]],
      [answers |-> [kind |-> "array", list |-> AnswersB]] }

SubmitRejectsSubmitted_Never(attempt) == FALSE

SubmitRejectsSubmitted_OrExpired(attempt) ==
    attempt.status = "submitted" \/ (attempt.end_at.kind = "ts" /\ now > attempt.end_at.v)

\* attempt.status === "submitted" in submit
SubmitRejectsSubmitted(attempt) == attempt.status = "submitted"

\* every shape of the answers field of submit: absent, null, a string, a list
SubmitInputs ==
    { [answers |-> [kind |-> k, list |-> <<>>]] : k \in {"undefined", "null", "string"} }
      \cup { [answers |-> [kind |-> "array", list |-> l]] : l \in {<<>>, AnswersA, AnswersB} }

\* const { answers = [] } = req.body: the default replaces undefined only
AnswersField(body) == IF body.answers.kind = "null" THEN Null ELSE body.answers.list

\* the rest of submit, from the lookup's result attemptData on, against the
\* table rows at time t
SubmitWrite(rows, user, testId, attemptData, body, t) ==
    LET answers == body.answers.list
        testData == TestById(testId)
    IN
    IF user.role # "student"
    THEN Outcome(rows, Reply(403, "Only students can submit tests"))
    ELSE IF attemptData = {} THEN Outcome(rows, Reply(404, "Test attempt not found"))
    ELSE IF SubmitRejectsSubmitted(TheRow(attemptData))
    THEN Outcome(rows, Reply(400, "Test already submitted"))
    ELSE IF testData = {} THEN Outcome(rows, Reply(404, "Test not found"))
    ELSE IF body.answers.kind = "string"
    THEN Outcome(rows, Reply(500, "Failed to submit test"))
    ELSE LET attempt == TheRow(attemptData)
             graded == GradeSubmission(TheRow(testData).question_ids, answers)
             durationSeconds ==
                 IF Truthy(attempt.started_at)
                 THEN Max(0, (t - attempt.started_at.v) \div 1000)
                 ELSE 0
         IN
         Outcome({ IF a.id # attempt.id THEN a
                   ELSE [a EXCEPT
                           !.submitted_at = Ts(t),
                           !.duration_seconds = durationSeconds,
                           !.status = "submitted",
                           !.score = graded.score,
                           !.total = graded.total,
                           !.answers = AnswersField(body),
                           !.result = [present |-> TRUE, perQuestion |-> graded.perQuestion]]
                   : a \in rows },
                 [Reply(200, "") EXCEPT
                    !.attemptId = attempt.id, !.score = graded.score, !.total = graded.total,
                    !.percentage = Percentage(graded.score, graded.total)])

\* a submit request that runs to completion
SubmitOutcome(rows, user, testId, body, t) ==
    SubmitWrite(rows, user, testId, AttemptOf(rows, testId, user.email), body, t)

Submit ==
    \E user \in Users, testId \in TestIdInputs, body \in SubmitBodies :
      /\ test_attempts' = SubmitOutcome(test_attempts, user, testId, body, now).rows
      /\ UNCHANGED <<now, tests, question_sets, inflight, win, calc, users>>


\* ---------------------------------------------------------------- review
\* the response of a route that returns attempts: the status, the attempts
\* and the tests sent with them
AttemptsReply(status, error, attempts, testRows) ==
    [status |-> status, error |-> error, attempts |-> attempts, tests |-> testRows]

AttemptById(rows, attemptId) == Single({ a \in rows : a.id = attemptId })

\* list-my-attempts: the caller's rows, each with the test it names (or null)
ListMyAttemptsOutcome(rows, user) ==
    IF user.role # "student"
    THEN AttemptsReply(403, "Only students can view attempts", {}, {})
    ELSE LET attempts == { a \in rows : a.student_email = user.email } IN
         AttemptsReply(200, "", attempts,
                       { t \in tests : t.id \in { a.test_id : a \in attempts } })

ReviewDenied_StaffOfInstitution(user, attempt, test) ==
    IF user.role = "student" THEN attempt.student_email # user.email
    ELSE IF user.role = "staff" THEN test.institution # user.institution
    ELSE TRUE

\* the role branches of attempt review
ReviewDenied(user, attempt, test) ==
    IF user.role = "student" THEN attempt.student_email # user.email
    ELSE IF user.role = "staff" THEN test.created_by # user.email
    ELSE TRUE

\* attempt review by id
ReviewOutcome(rows, user, attemptId) ==
    LET attempt == AttemptById(rows, attemptId) IN
    IF attempt = {} THEN AttemptsReply(404, "Attempt not found", {}, {})
    ELSE LET test == TestById(TheRow(attempt).test_id) IN
    IF test = {} THEN AttemptsReply(404, "Test not found", {}, {})
    ELSE IF ReviewDenied(user, TheRow(attempt), TheRow(test))
    THEN AttemptsReply(403, "Access denied", {}, {})
    ELSE AttemptsReply(200, "", attempt, test)

\* list-attempts-for-test
ListTestAttemptsOutcome(rows, user, testId) ==
    LET test == TestById(testId) IN
    IF user.role # "staff" THEN AttemptsReply(403, "Only staff can view attempts", {}, {})
    ELSE IF test = {} THEN AttemptsReply(404, "Test not found", {}, {})
    ELSE IF TheRow(test).created_by # user.email
    THEN AttemptsReply(403, "Access denied", {}, {})
    ELSE AttemptsReply(200, "", { a \in rows : a.test_id = testId }, {})

\* ---------------------------------------------------------------- sequential
\* every request runs to completion before the next begins
Next == Tick \/ CreateTest \/ Start \/ GetAttempt \/ Autosave \/ Submit

Spec == Init /\ [][Next]_vars

\* ---------------------------------------------------------------- interleaved
\* a start request is two steps: its reads up to the existing-attempt lookup,
\* then the rest; other requests may run in between
StartBegin(p) ==
    \E user \in Users, testId \in TestIdInputs :
      /\ inflight[p].pc = "idle"
      /\ inflight' = [inflight EXCEPT ![p] = StartRead(test_attempts, user, testId, now)]
      /\ UNCHANGED <<now, tests, test_attempts, question_sets, win, calc, users>>

StartFinish(p) ==
    \E dbLag \in DbLags :
      /\ inflight[p].pc = "start"
      /\ test_attempts' = StartWrite(test_attempts, inflight[p], now, dbLag).rows
      /\ inflight' = [inflight EXCEPT ![p] = IdleReq]
      /\ UNCHANGED <<now, tests, question_sets, win, calc, users>>

NextConc ==
    \/ Tick
    \/ CreateTest
    \/ \E p \in Procs : StartBegin(p)
    \/ \E p \in Procs : StartFinish(p)

SpecConc == Init /\ [][NextConc]_vars


\* ---------------------------------------------------------------- start window
\* isStartWindowOpen applied to a test and a time drawn from small sets
WindowValues == {Null, EmptyString, BadDate, Ts(MsPerMinute), Ts(2 * MsPerMinute)}
WindowTimes == {0, MsPerMinute, 2 * MsPerMinute, 3 * MsPerMinute}

InitWindow ==
    /\ now = 0
    /\ tests = {}
    /\ test_attempts = {}
    /\ question_sets = SeedQuestionSets
    /\ inflight = [p \in Procs |-> IdleReq]
    /\ win \in [test : [start_at : WindowValues, last_start_at : WindowValues],
                now : WindowTimes, done : {FALSE}, result : {TRUE}]
    /\ calc = NoCalc
    /\ users = SeedUsers

ApplyWindow ==
    /\ ~win.done
    /\ win' = [win EXCEPT !.done = TRUE, !.result = isStartWindowOpen(win.test, win.now)]
    /\ UNCHANGED <<now, tests, test_attempts, question_sets, inflight, calc, users>>

NextWindow == ApplyWindow

SpecWindow == InitWindow /\ [][NextWindow]_vars

\* ---------------------------------------------------------------- question sets
\* the callers of the question-set routes
SetEditors == Users \cup {RajUser}

SetIdInputs == {"qs1", "qs2", "qs3", "qs9"}

\* the bodies of update: new question ids, a new name
UpdateBodies ==
    { [questionIds |-> [kind |-> "array", list |-> <<"q3", "q3">>], name |-> ""],
      [questionIds |-> [kind |-> "array", list |-> <<>>], name |-> ""],
      [questionIds |-> [kind |-> "undefined", list |-> <<>>], name |-> "Renamed"] }

SetById(sets, setId) == Single({ s \in sets : s.id = setId })

\* PUT /my-sets/:setId on the table sets
UpdateSetOutcome(sets, user, setId, body) ==
    LET questionSet == SetById(sets, setId) IN
    IF user.role # "staff" THEN Outcome(sets, Reply(403, "Only staff can update sets"))
    ELSE IF questionSet = {} \/ TheRow(questionSet).created_by # user.email
    THEN Outcome(sets, Reply(403, "You can only update your own sets"))
    ELSE Outcome({ IF s.id # setId THEN s
                   ELSE [s EXCEPT
                           !.question_ids = IF body.questionIds.kind # "undefined"
                                            THEN body.questionIds.list ELSE @,
                           !.name = IF body.name # "" THEN body.name ELSE @]
                   : s \in sets },
                 Reply(200, ""))

UpdateSet ==
    \E user \in SetEditors, setId \in SetIdInputs, body \in UpdateBodies :
      /\ question_sets' = UpdateSetOutcome(question_sets, user, setId, body).rows
      /\ UNCHANGED <<now, tests, test_attempts, users, inflight, win, calc>>

\* array.filter((id) => id !== setId)
WithoutId(ids, setId) == SelectSeq(ids, LAMBDA id : id # setId)

\* DELETE /my-sets/:setId: the set goes, then the caller's sets_created and
\* every user's access_sets lose its id
DeleteSetOutcome(sets, userRows, user, setId) ==
    LET questionSet == SetById(sets, setId) IN
    IF user.role # "staff"
    THEN [rows |-> sets, users |-> userRows, res |-> Reply(403, "Only staff can delete sets")]
    ELSE IF questionSet = {} \/ TheRow(questionSet).created_by # user.email
    THEN [rows |-> sets, users |-> userRows,
          res |-> Reply(403, "You can only delete your own sets")]
    ELSE [rows |-> { s \in sets : s.id # setId },
          users |-> [e \in DOMAIN userRows |->
                       [sets_created |-> IF e = user.email
                                         THEN WithoutId(userRows[e].sets_created, setId)
                                         ELSE userRows[e].sets_created,
                        access_sets |-> WithoutId(userRows[e].access_sets, setId)]],
          res |-> Reply(200, "")]

DeleteSet ==
    \E user \in SetEditors, setId \in SetIdInputs :
      /\ question_sets' = DeleteSetOutcome(question_sets, users, user, setId).rows
      /\ users' = DeleteSetOutcome(question_sets, users, user, setId).users
      /\ UNCHANGED <<now, tests, test_attempts, inflight, win, calc>>

\* create-test by any of the callers, naming any list of sets
CreateTestFromSets ==
    \E user \in SetEditors, body \in OwnershipBodies :
    \E ordered \in NamedSets(body.questionSetIds) :
      /\ tests' = CreateTestOutcome(tests, user, body, ordered, now).rows
      /\ UNCHANGED <<now, test_attempts, question_sets, users, inflight, win, calc>>

NextSets == CreateTestFromSets \/ UpdateSet \/ DeleteSet

SpecSets == Init /\ [][NextSets]_vars

\* ---------------------------------------------------------------- rows without end_at
\* the requests of an attempt against a table that holds a row stored without
\* end_at (the column is nullable and has no default): a test of Tina's and
\* the row of one student, in progress or submitted
LegacyTestId == <<"test", "tina", 0>>

LegacyTests ==
    { [id |-> LegacyTestId, name |-> "Mock 1", institution |-> "x", created_by |-> Tina,
       question_set_ids |-> <<"qs1">>, question_ids |-> <<"q1", "q2", "q3", "q4">>,
       duration_minutes |-> d, is_public |-> TRUE, assigned_student_sets |-> {},
       start_at |-> Null, last_start_at |-> l] :
        d \in {Int_(DefaultDurationMinutes), Int_(0), Int_(1)}, l \in {Null, Ts(0)} }

LegacyAttempts ==
    { [NewAttempt(<<"attempt", "sam", 0>>, LegacyTestId, SamX, startedAt, Null) EXCEPT
         !.status = st,
         !.submitted_at = IF st = "submitted" THEN Ts(0) ELSE Null,
         !.result = IF st = "submitted" THEN [present |-> TRUE, perQuestion |-> {}]
                    ELSE EmptyResult] :
        startedAt \in {Ts(0), Null}, st \in {"in_progress", "submitted"} }

InitLegacy ==
    /\ now = 0
    /\ tests \in { {t} : t \in LegacyTests }
    /\ test_attempts \in { {a} : a \in LegacyAttempts }
    /\ question_sets = SeedQuestionSets
    /\ users = SeedUsers
    /\ inflight = [p \in Procs |-> IdleReq]
    /\ win = NoWin
    /\ calc = NoCalc

NextLegacy == Tick \/ Start \/ GetAttempt \/ Autosave \/ Submit

SpecLegacy == InitLegacy /\ [][NextLegacy]_vars

\* ---------------------------------------------------------------- deadline
\* the requests of an attempt while the clock passes its end_at: a stored test
\* of one minute without a start window, and no attempt yet
TimedTest ==
    [id |-> LegacyTestId, name |-> "Mock 1", institution |-> "x", created_by |-> Tina,
     question_set_ids |-> <<"qs1">>, question_ids |-> <<"q1", "q2", "q3", "q4">>,
     duration_minutes |-> Int_(1), is_public |-> TRUE, assigned_student_sets |-> {},
     start_at |-> Null, last_start_at |-> Null]

InitExpiry ==
    /\ now = 0
    /\ tests = {TimedTest}
    /\ test_attempts = {}
    /\ question_sets = SeedQuestionSets
    /\ users = SeedUsers
    /\ inflight = [p \in Procs |-> IdleReq]
    /\ win = NoWin
    /\ calc = NoCalc

\* the clock passes the end_at of every stored attempt, one of them still ahead
Expire ==
    LET deadlines == { a.end_at.v : a \in { a \in test_attempts : a.end_at.kind = "ts" } } IN
    /\ \E d \in deadlines : now <= d
    /\ now' = MaxOf(deadlines) + 1
    /\ UNCHANGED <<tests, test_attempts, question_sets, users, inflight, win, calc>>

NextExpiry == Start \/ GetAttempt \/ Autosave \/ Submit \/ Expire

SpecExpiry == InitExpiry /\ [][NextExpiry]_vars


\* ---------------------------------------------------------------- interleaved writes
\* an autosave or a submit request is two steps: the lookup of the attempt,
\* then the rest with its update; other requests may run in between
AutosaveBegin(p) ==
    \E user \in Users, testId \in TestIdInputs, body \in SaveBodies :
      /\ inflight[p].pc = "idle"
      /\ inflight' = [inflight EXCEPT ![p] =
                        [pc |-> "autosave", user |-> user, testId |-> testId, now |-> now,
                         test |-> {}, existing |-> AttemptOf(test_attempts, testId, user.email),
                         body |-> body]]
      /\ UNCHANGED <<now, tests, test_attempts, question_sets, users, win, calc>>

AutosaveFinish(p) ==
    /\ inflight[p].pc = "autosave"
    /\ test_attempts' = AutosaveWrite(test_attempts, inflight[p].user, inflight[p].existing,
                                      inflight[p].body, now).rows
    /\ inflight' = [inflight EXCEPT ![p] = IdleReq]
    /\ UNCHANGED <<now, tests, question_sets, users, win, calc>>

SubmitBegin(p) ==
    \E user \in Users, testId \in TestIdInputs, body \in SubmitBodies :
      /\ inflight[p].pc = "idle"
      /\ inflight' = [inflight EXCEPT ![p] =
                        [pc |-> "submit", user |-> user, testId |-> testId, now |-> now,
                         test |-> {}, existing |-> AttemptOf(test_attempts, testId, user.email),
                         body |-> body]]
      /\ UNCHANGED <<now, tests, test_attempts, question_sets, users, win, calc>>

SubmitFinish(p) ==
    /\ inflight[p].pc = "submit"
    /\ test_attempts' = SubmitWrite(test_attempts, inflight[p].user, inflight[p].testId,
                                    inflight[p].existing, inflight[p].body, now).rows
    /\ inflight' = [inflight EXCEPT ![p] = IdleReq]
    /\ UNCHANGED <<now, tests, question_sets, users, win, calc>>

NextRace ==
    \/ Start
    \/ \E p \in Procs : AutosaveBegin(p)
    \/ \E p \in Procs : AutosaveFinish(p)
    \/ \E p \in Procs : SubmitBegin(p)
    \/ \E p \in Procs : SubmitFinish(p)

SpecRace == InitExpiry /\ [][NextRace]_vars


\* ---------------------------------------------------------------- served questions
\* one test made by any caller from any list of sets, then started and
\* submitted
CreateTestOwn ==
    \E user \in Callers, body \in OwnershipBodies :
    \E ordered \in NamedSets(body.questionSetIds) :
      /\ tests = {}
      /\ tests' = CreateTestOutcome(tests, user, body, ordered, now).rows
      /\ UNCHANGED <<now, test_attempts, question_sets, users, inflight, win, calc>>

NextServe == Tick \/ CreateTestOwn \/ Start \/ Submit

SpecServe == Init /\ [][NextServe]_vars

\* ---------------------------------------------------------------- failing store
\* a call to the store that fails returns no data and an error and changes
\* nothing: the calls of the four attempt handlers
StoreCalls == {"test", "lookup", "backfill", "insert", "questions", "update"}

\* at most one call of a request fails
Failures == {{}} \cup { {call} : call \in StoreCalls }

\* start: testError is checked; the error of the lookup and of the backfill
\* is not read, so a failed lookup is existingAttempt = null; the error of the
\* insert is thrown
StartWithFailures(rows, user, testId, t, dbLag, failed) ==
    LET rd == StartRead(rows, user, testId, t)
        seen == [rd EXCEPT !.test = IF "test" \in failed THEN {} ELSE @,
                           !.existing = IF "lookup" \in failed THEN {} ELSE @]
        o == StartWrite(rows, seen, t, dbLag)
    IN
    IF o.rows = rows THEN o
    ELSE IF \E a \in o.rows : \A b \in rows : b.id # a.id
    THEN IF "insert" \in failed
         THEN Outcome(rows, Reply(500, "Failed to start test")) ELSE o
    ELSE IF "backfill" \in failed THEN Outcome(rows, o.res) ELSE o

\* get-attempt: testError and attemptError are answered with not-found; the
\* error of the backfill is not read
GetAttemptWithFailures(rows, user, testId, failed) ==
    LET o == GetAttemptOutcome(rows, user, testId) IN
    IF user.role # "student" THEN o
    ELSE IF "test" \in failed THEN Outcome(rows, Reply(404, "Test not found"))
    ELSE IF o.res.error = "Test not found" THEN o
    ELSE IF "lookup" \in failed THEN Outcome(rows, Reply(404, "Attempt not found"))
    ELSE IF "backfill" \in failed THEN Outcome(rows, o.res)
    ELSE o

\* autosave: attemptError is answered with not-found, the error of the update
\* is thrown
AutosaveWithFailures(rows, user, testId, body, t, failed) ==
    LET o == AutosaveOutcome(rows, user, testId, body, t) IN
    IF user.role # "student" THEN o
    ELSE IF "lookup" \in failed THEN Outcome(rows, Reply(404, "Attempt not found"))
    ELSE IF o.res.status # 200 THEN o
    ELSE IF "update" \in failed THEN Outcome(rows, Reply(500, "Failed to save attempt"))
    ELSE o

\* submit: attemptError and testError are answered with not-found, the errors
\* of the questions query and of the update are thrown
SubmitWithFailures(rows, user, testId, body, t, failed) ==
    LET o == SubmitOutcome(rows, user, testId, body, t) IN
    IF user.role # "student" THEN o
    ELSE IF "lookup" \in failed THEN Outcome(rows, Reply(404, "Test attempt not found"))
    ELSE IF o.res.error \in {"Test attempt not found", "Test already submitted"} THEN o
    ELSE IF "test" \in failed THEN Outcome(rows, Reply(404, "Test not found"))
    ELSE IF o.res.status # 200 THEN o
    ELSE IF failed \cap {"questions", "update"} # {}
    THEN Outcome(rows, Reply(500, "Failed to submit test"))
    ELSE o

StartFaulty ==
    \E user \in Users, testId \in TestIdInputs, failed \in Failures :
      /\ test_attempts'
           = StartWithFailures(test_attempts, user, testId, now, 0, failed).rows
      /\ UNCHANGED <<now, tests, question_sets, users, inflight, win, calc>>

GetAttemptFaulty ==
    \E user \in Users, testId \in TestIdInputs, failed \in Failures :
      /\ test_attempts' = GetAttemptWithFailures(test_attempts, user, testId, failed).rows
      /\ UNCHANGED <<now, tests, question_sets, users, inflight, win, calc>>

AutosaveFaulty ==
    \E user \in Users, testId \in TestIdInputs, body \in SaveBodies, failed \in Failures :
      /\ test_attempts'
           = AutosaveWithFailures(test_attempts, user, testId, body, now, failed).rows
      /\ UNCHANGED <<now, tests, question_sets, users, inflight, win, calc>>

SubmitFaulty ==
    \E user \in Users, testId \in TestIdInputs, body \in SubmitBodies, failed \in Failures :
      /\ test_attempts'
           = SubmitWithFailures(test_attempts, user, testId, body, now, failed).rows
      /\ UNCHANGED <<now, tests, question_sets, users, inflight, win, calc>>

NextFaulty == Tick \/ StartFaulty \/ GetAttemptFaulty \/ AutosaveFaulty \/ SubmitFaulty

\* one stored test, and no attempt or one stored without end_at
InitFaulty ==
    /\ now = 0
    /\ tests = {TimedTest}
    /\ test_attempts \in {{}} \cup { {a} : a \in LegacyAttempts }
    /\ question_sets = SeedQuestionSets
    /\ users = SeedUsers
    /\ inflight = [p \in Procs |-> IdleReq]
    /\ win = NoWin
    /\ calc = NoCalc

SpecFaulty == InitFaulty /\ [][NextFaulty]_vars

\* ---------------------------------------------------------------- grading
\* the grading loop of submit and the percentage of its response, applied to
\* a test's question_ids and an answer list, or to a score and a total
QuestionIdLists ==
    { <<"q1", "q2", "q3", "q4">>, <<"q1">>, <<"q2">>, <<"q3", "q4">>, <<"q4">>,
      <<"q2", "q9">>, <<"q5", "q1">> }

EntryFor(questionId, answer) ==
    IF answer = UndefinedAnswer THEN <<>>
    ELSE <<[questionId |-> questionId, answer |-> answer]>>

AnswerLists ==
    { EntryFor("q1", a1) \o EntryFor("q2", a2) \o EntryFor("q3", a3) \o more :
        a1 \in {UndefinedAnswer, "B", "A"},
        a2 \in {UndefinedAnswer, "3.141", "3.15", "3.13", "3.16", "3.14abc", "abc"},
        a3 \in {UndefinedAnswer, "C"},
        more \in { <<>>, EntryFor("q9", "B"), EntryFor("q1", "A"), EntryFor("q4", "X"),
                   EntryFor("q5", "3.14") } }

InitGrade ==
    /\ now = 0
    /\ tests = {}
    /\ test_attempts = {}
    /\ question_sets = SeedQuestionSets
    /\ users = SeedUsers
    /\ inflight = [p \in Procs |-> IdleReq]
    /\ win = NoWin
    /\ calc \in { [NoCalc EXCEPT !.fn = "grade", !.questionIds = ids, !.answers = answers] :
                    ids \in QuestionIdLists, answers \in AnswerLists }
                \cup { [NoCalc EXCEPT !.fn = "percentage", !.score = st[1], !.total = st[2]] :
                         st \in { st \in (0..40) \X (Totals \cup {0}) : st[1] <= st[2] } }

ApplyGrade ==
    /\ calc.fn = "grade" /\ ~calc.done
    /\ LET graded == GradeSubmission(calc.questionIds, calc.answers) IN
       calc' = [calc EXCEPT !.done = TRUE, !.graded = graded,
                            !.percentage = Percentage(graded.score, graded.total)]
    /\ UNCHANGED <<now, tests, test_attempts, question_sets, users, inflight, win>>

ApplyPercentage ==
    /\ calc.fn = "percentage" /\ ~calc.done
    /\ calc' = [calc EXCEPT !.done = TRUE, !.percentage = Percentage(calc.score, calc.total)]
    /\ UNCHANGED <<now, tests, test_attempts, question_sets, users, inflight, win>>

NextGrade == ApplyGrade \/ ApplyPercentage

SpecGrade == InitGrade /\ [][NextGrade]_vars

\*

\* ================================================================ properties
Students == { u \in Users : u.role = "student" }

RowsOf(rows, testId, email) ==
    { a \in rows : a.test_id = testId /\ a.student_email = email }

\* now before start_at, or now after last_start_at
WindowClosed(test, t) ==
    \/ test.start_at.kind = "ts" /\ t < test.start_at.v
    \/ test.last_start_at.kind = "ts" /\ t > test.last_start_at.v

\* C1: with requests run one after the other, test_attempts holds at most one
\* row for every (test, student) pair.
C1_OneAttemptPerPair ==
    \A a, b \in test_attempts :
        (a.test_id = b.test_id /\ a.student_email = b.student_email) => a = b

\* both students hold a row: one autosaved and still in progress, one submitted
C1_Witness ==
    \E a, b \in test_attempts :
        /\ a.student_email # b.student_email
        /\ a.status = "in_progress" /\ a.last_saved_at # Null
        /\ b.status = "submitted"

\* C2: a start request that follows a successful start of the same (test,
\* student) with no submit in between succeeds, returns the same attempt id,
\* creates no row and changes nothing but a missing end_at.
C2_StartTwiceSameAttempt ==
    \A u \in Students, a \in test_attempts, dbLag \in DbLags :
        (a.student_email = u.email /\ a.status = "in_progress") =>
            LET o == StartOutcome(test_attempts, u, a.test_id, now, dbLag) IN
            /\ o.res.status = 200
            /\ o.res.attemptId = a.id
            /\ { r.id : r \in o.rows } = { r.id : r \in test_attempts }
            /\ \A r \in o.rows :
                 \E q \in test_attempts :
                     r = q \/ (~Truthy(q.end_at) /\ r = [q EXCEPT !.end_at = r.end_at])

\* C3: for every row start creates, end_at - started_at is exactly the parent
\* test's duration_minutes * 60000 ms.
C3_EndAtIsStartPlusDuration ==
    [][\A a \in test_attempts' :
         (\A b \in test_attempts : b.id # a.id) =>
             \E t \in tests :
                 /\ t.id = a.test_id
                 /\ a.end_at.kind = "ts" /\ a.started_at.kind = "ts"
                 /\ a.end_at.v - a.started_at.v = t.duration_minutes.v * 60000]_vars

\* C4: a submit after a successful submit of the same (test, student) fails
\* with the already-submitted error and leaves the stored row as it was.
C4_SecondSubmitConflict ==
    \A u \in Students, a \in test_attempts, body \in SubmitBodies :
        (a.student_email = u.email /\ a.status = "submitted") =>
            LET o == SubmitOutcome(test_attempts, u, a.test_id, body, now) IN
            /\ o.res.status = 400
            /\ o.res.error = "Test already submitted"
            /\ o.rows = test_attempts

\* a submitted row whose second submit would come at a later time
C4_Witness ==
    \E a \in test_attempts :
        a.status = "submitted" /\ a.submitted_at.kind = "ts" /\ a.submitted_at.v < now

\* C5: an autosave on a submitted attempt fails with the conflict error and
\* changes no field of the stored attempt.
C5_AutosaveAfterSubmitConflict ==
    \A u \in Students, a \in test_attempts, body \in SaveBodies :
        (a.student_email = u.email /\ a.status = "submitted") =>
            LET o == AutosaveOutcome(test_attempts, u, a.test_id, body, now) IN
            /\ o.res.status = 400
            /\ o.res.error = "Attempt already submitted"
            /\ o.rows = test_attempts

\* a submitted row that was autosaved before, at a time when a further
\* autosave would stamp a later last_saved_at
C5_Witness ==
    \E a \in test_attempts :
        /\ a.status = "submitted"
        /\ a.last_saved_at.kind = "ts" /\ a.last_saved_at.v < now
        /\ a.question_status # {}

\* a start request on a submitted attempt is rejected and creates no row
C6_StartRejected ==
    \A u \in Students, a \in test_attempts, dbLag \in DbLags :
        (a.student_email = u.email /\ a.status = "submitted") =>
            LET o == StartOutcome(test_attempts, u, a.test_id, now, dbLag) IN
            /\ o.res.status \in {400, 403}
            /\ o.rows = test_attempts

\* a submitted row stays submitted
C6_StaysSubmitted ==
    \A a \in test_attempts :
        a.status = "submitted" =>
            /\ \E b \in test_attempts' : b.id = a.id
            /\ \A b \in test_attempts' : b.id = a.id => b.status = "submitted"

\* C6: submitted is terminal: no request sets a submitted attempt back to
\* in_progress, and start on it is rejected without creating a row.
C6_SubmittedTerminal == [](C6_StartRejected) /\ [][C6_StaysSubmitted]_vars

\* a submitted row whose test's start window is open, so that it is the
\* status check that rejects the start
C6_Witness ==
    \E u \in Students, a \in test_attempts :
        /\ a.student_email = u.email /\ a.status = "submitted"
        /\ StartOutcome(test_attempts, u, a.test_id, now, 0).res.error
             = "Test already submitted"

\* C7: with the start window closed, a start by a student who has no attempt
\* for the test answers forbidden with the test's start_at and last_start_at
\* and creates no row.
C7_ClosedWindowForbidden ==
    \A u \in Students, t \in tests, dbLag \in DbLags :
        (WindowClosed(t, now) /\ RowsOf(test_attempts, t.id, u.email) = {}) =>
            LET o == StartOutcome(test_attempts, u, t.id, now, dbLag) IN
            /\ o.res.status = 403
            /\ o.res.startAt = t.start_at
            /\ o.res.lastStartAt = t.last_start_at
            /\ o.rows = test_attempts

\* a test whose last_start_at has passed, and a student without an attempt
C7_Witness ==
    \E u \in Students, t \in tests :
        /\ t.last_start_at.kind = "ts" /\ now > t.last_start_at.v
        /\ t.start_at = Null
        /\ RowsOf(test_attempts, t.id, u.email) = {}
        /\ StartOutcome(test_attempts, u, t.id, now, 0).res.status = 403

\* C8: the window gates only the creation of an attempt: with an in_progress
\* attempt, start returns it whatever the time, and get-attempt, autosave and
\* submit are not rejected for the window.
C8_WindowGatesOnlyCreation ==
    \A u \in Students, a \in test_attempts :
        (a.student_email = u.email /\ a.status = "in_progress") =>
            /\ \A dbLag \in DbLags :
                 LET o == StartOutcome(test_attempts, u, a.test_id, now, dbLag) IN
                 o.res.status = 200 /\ o.res.attemptId = a.id
            /\ GetAttemptOutcome(test_attempts, u, a.test_id).res.status = 200
            /\ \A body \in SaveBodies :
                 AutosaveOutcome(test_attempts, u, a.test_id, body, now).res.status = 200
            /\ \A body \in SubmitBodies :
                 SubmitOutcome(test_attempts, u, a.test_id, body, now).res.status = 200

\* C9: isStartWindowOpen is false exactly when start_at is set, parseable and
\* later than now, or last_start_at is set, parseable and earlier than now.
C9_WindowOpenExactly ==
    win.done => (win.result = FALSE <=> WindowClosed(win.test, win.now))

\* the function applied at the inclusive endpoint now = start_at
C9_Witness ==
    /\ win.done
    /\ win.test.start_at = Ts(win.now)
    /\ win.test.last_start_at = BadDate
    /\ win.result = TRUE

\* a start request in flight that passed the checks and whose lookup found no
\* attempt
FoundNone(rd) ==
    /\ rd.pc = "start"
    /\ rd.user.role = "student"
    /\ rd.test # {}
    /\ ~WindowClosed(TheRow(rd.test), rd.now)
    /\ rd.existing = {}

Graded == calc.fn = "grade" /\ calc.done

TestQuestions(questionIds) == { q \in Questions : q.id \in SeqToSet(questionIds) }

Without(questionIds, id) == SelectSeq(questionIds, LAMBDA x : x # id)

\* the answers a list gives for a question id
Submitted(answers, id) ==
    { answers[i].answer : i \in { i \in DOMAIN answers : answers[i].questionId = id } }

Abs(x) == IF x < 0 THEN -x ELSE x

\* the grading of the same submission for the test without the question
GradedWithout(question) ==
    GradeSubmission(Without(calc.questionIds, question.id), calc.answers)

\* C11: a question of type mcq_single, or without a type, adds 1 to total and
\* adds 1 to score exactly when the answer submitted for it is identical to
\* its answer.value; with no answer submitted it is graded incorrect.
C11_McqGrading ==
    Graded =>
      \A q \in TestQuestions(calc.questionIds) :
          q.question_type \in {"mcq_single", ""} =>
              LET given == Submitted(calc.answers, q.id) IN
              /\ calc.graded.total = GradedWithout(q).total + 1
              /\ Cardinality(given) <= 1 =>
                   calc.graded.score
                     = GradedWithout(q).score + (IF given = {q.answer} THEN 1 ELSE 0)
              /\ \E e \in calc.graded.perQuestion :
                     /\ e.questionId = q.id
                     /\ Cardinality(given) <= 1 => (e.isCorrect <=> given = {q.answer})

\* a graded submission that answers the question without a type correctly and
\* gives no answer for the mcq_single question
C11_Witness ==
    /\ Graded
    /\ \E e \in calc.graded.perQuestion :
           e.questionId = "q3" /\ e.userAnswer = "C" /\ e.isCorrect
    /\ \E e \in calc.graded.perQuestion :
           e.questionId = "q1" /\ e.userAnswer = UndefinedAnswer /\ ~e.isCorrect

\* C12: a numerical question adds 1 to total and is graded correct exactly
\* when both values parse as numbers that differ by less than 0.01; a
\* difference of 0.01 or more, or a value that does not parse, is incorrect.
C12_NumericalTolerance ==
    Graded =>
      \A q \in TestQuestions(calc.questionIds) :
          q.question_type = "numerical" =>
              LET given == Submitted(calc.answers, q.id)
                  correctNum == parseFloat(q.answer)
              IN
              /\ calc.graded.total = GradedWithout(q).total + 1
              /\ \A e \in calc.graded.perQuestion :
                     (e.questionId = q.id /\ Cardinality(given) <= 1) =>
                         (e.isCorrect <=>
                            \E a \in given :
                                /\ parseFloat(a).kind = "num"
                                /\ correctNum.kind = "num"
                                /\ Abs(parseFloat(a).v - correctNum.v) < 10)

\* C13: a question of any other type changes neither score nor total and has
\* no entry in perQuestion; perQuestion has exactly one entry for each scored
\* question, so it has total entries.
C13_UnknownTypeSkipped ==
    Graded =>
      /\ \A q \in TestQuestions(calc.questionIds) :
             IF q.question_type \in {"mcq_single", "numerical", ""}
             THEN Cardinality({ e \in calc.graded.perQuestion : e.questionId = q.id }) = 1
             ELSE /\ GradedWithout(q) = calc.graded
                  /\ \A e \in calc.graded.perQuestion : e.questionId # q.id
      /\ Cardinality(calc.graded.perQuestion) = calc.graded.total

\* a graded test of three scored questions and one of another type, with an
\* answer submitted for the latter
C13_Witness ==
    /\ Graded
    /\ SeqToSet(calc.questionIds) = {"q1", "q2", "q3", "q4"}
    /\ Submitted(calc.answers, "q4") # {}
    /\ calc.graded.total = 3

\* round(100 * score / total), a tie going up
ExactPercentage(score, total) ==
    IF total = 0 THEN 0 ELSE (200 * score + total) \div (2 * total)

\* the answers given for the ids of the test
AnswersInTest(answers, questionIds) ==
    SelectSeq(answers, LAMBDA e : e.questionId \in SeqToSet(questionIds))

\* C14: 0 <= score <= total <= number of question ids, score is the number of
\* entries with isCorrect, the percentage is round(100 * score / total) or 0
\* for total 0, and answers for ids outside the test change nothing.
C14_ScoreTotalPercentage ==
    /\ Graded =>
         /\ 0 <= calc.graded.score
         /\ calc.graded.score <= calc.graded.total
         /\ calc.graded.total <= Len(calc.questionIds)
         /\ calc.graded.score
              = Cardinality({ e \in calc.graded.perQuestion : e.isCorrect })
         /\ calc.percentage = ExactPercentage(calc.graded.score, calc.graded.total)
         /\ GradeSubmission(calc.questionIds, AnswersInTest(calc.answers, calc.questionIds))
              = calc.graded
    /\ (calc.fn = "percentage" /\ calc.done) =>
         calc.percentage = ExactPercentage(calc.score, calc.total)

\* ---------------------------------------------------------------- autosave claims
\* C15: a successful autosave stores answers when it is a list, question_status
\* when it is a mapping, last_question_index when it is a finite number, and
\* last_saved_at; it changes no other field of the attempt and no other row.
C15_AutosaveFrame ==
    \A u \in Students, a \in test_attempts, body \in SaveInputs :
        LET o == AutosaveOutcome(test_attempts, u, a.test_id, body, now) IN
        (a.student_email = u.email /\ o.res.status = 200) =>
            /\ \A r \in test_attempts : r.id # a.id => r \in o.rows
            /\ \E r \in o.rows :
                   r = [a EXCEPT
                          !.last_saved_at = r.last_saved_at,
                          !.answers = IF body.answers.kind = "array"
                                      THEN body.answers.list ELSE @,
                          !.question_status = IF body.questionStatus.kind = "object"
                                              THEN body.questionStatus.map ELSE @,
                          !.last_question_index = IF body.lastQuestionIndex.kind = "int"
                                                  THEN body.lastQuestionIndex.v ELSE @]

\* ---------------------------------------------------------------- end_at claims
\* an end_at that is present is the same in the next state
EndAtKept ==
    \A a \in test_attempts :
        Truthy(a.end_at) =>
            \A b \in test_attempts' : b.id = a.id => b.end_at = a.end_at

\* started_at + duration_minutes * 60000 of the parent test
ClaimedEndAt(a, t) == Ts(a.started_at.v + t.duration_minutes.v * 60000)

\* for a row without end_at and with a valid started_at, get-attempt and
\* start leave the row with the end_at of its test's duration
EndAtBackfilled ==
    \A u \in Students, a \in test_attempts, t \in tests :
        (a.student_email = u.email /\ a.test_id = t.id
         /\ ~Truthy(a.end_at) /\ a.started_at.kind = "ts") =>
            /\ \A r \in GetAttemptOutcome(test_attempts, u, t.id).rows :
                   r.id = a.id => r.end_at = ClaimedEndAt(a, t)
            /\ \A dbLag \in DbLags :
                   \A r \in StartOutcome(test_attempts, u, t.id, now, dbLag).rows :
                       r.id = a.id => r.end_at = ClaimedEndAt(a, t)

\* C16: an end_at that is present is never changed by start, get-attempt,
\* autosave or submit; when it is absent and started_at is valid, start and
\* get-attempt set it to started_at + duration_minutes * 60000 ms.
C16_EndAtOnceThenBackfilled == [](EndAtBackfilled) /\ [][EndAtKept]_vars

\* ---------------------------------------------------------------- expiry claims
\* a row that goes from in_progress to submitted does so in a submit step
OnlySubmitSubmits ==
    \A a \in test_attempts, b \in test_attempts' :
        (b.id = a.id /\ a.status = "in_progress" /\ b.status = "submitted") =>
            \E u \in Students, body \in SubmitBodies :
                /\ u.email = a.student_email
                /\ SubmitOutcome(test_attempts, u, a.test_id, body, now).res.status = 200
                /\ test_attempts' = SubmitOutcome(test_attempts, u, a.test_id, body, now).rows
                /\ now' = now

\* submit and autosave on an in_progress attempt are accepted whatever now is
AcceptedWhateverTheTime ==
    \A u \in Students, a \in test_attempts :
        (a.student_email = u.email /\ a.status = "in_progress"
         /\ AttemptOf(test_attempts, a.test_id, u.email) # {}) =>
            /\ \A body \in SubmitBodies :
                   SubmitOutcome(test_attempts, u, a.test_id, body, now).res.status = 200
            /\ \A body \in SaveBodies :
                   AutosaveOutcome(test_attempts, u, a.test_id, body, now).res.status = 200

\* C17: expiry is advisory: an attempt goes from in_progress to submitted only
\* by a submit request, never by the clock passing end_at, and submit and
\* autosave on an in_progress attempt are accepted before and after end_at.
C17_ExpiryAdvisory == [](AcceptedWhateverTheTime) /\ [][OnlySubmitSubmits]_vars

\* an attempt saved and then submitted after its end_at had passed
C17_Witness ==
    \E a \in test_attempts :
        /\ a.status = "submitted"
        /\ a.end_at.kind = "ts"
        /\ a.last_saved_at.kind = "ts" /\ a.last_saved_at.v > a.end_at.v
        /\ a.submitted_at.kind = "ts" /\ a.submitted_at.v > a.end_at.v

\* ---------------------------------------------------------------- create-test claims
Staff == { u \in Users : u.role = "staff" }

OwnedBy(setId, email) == \E s \in question_sets : s.id = setId /\ s.created_by = email

\* the question ids of the sets named, taken together
CombinedIds(questionSetIds) ==
    UNION { SeqToSet(s.question_ids) :
              s \in { s \in question_sets : s.id \in SeqToSet(questionSetIds) } }

\* C18: for a staff caller, a name and a non-empty list of set ids, create-test
\* answers forbidden exactly when a named set is not the caller's, and stores
\* the test when all are and they hold a question; every stored test names
\* only sets of its creator.  (Stated for a test id that is not taken.)
C18_OwnedSetsOnly ==
    /\ \A u \in Staff, body \in OwnershipBodies :
         \A ordered \in NamedSets(body.questionSetIds) :
           LET o == CreateTestOutcome(tests, u, body, ordered, now)
               allOwned == \A i \in DOMAIN body.questionSetIds :
                               OwnedBy(body.questionSetIds[i], u.email)
           IN (\A t \in tests : t.id # TestId(u, now)) =>
                  /\ o.res.status = 403 <=> ~allOwned
                  /\ (allOwned /\ CombinedIds(body.questionSetIds) # {}) =>
                         \E t \in o.rows \ tests :
                             /\ t.created_by = u.email
                             /\ t.question_set_ids = body.questionSetIds
    /\ \A t \in tests :
         \A i \in DOMAIN t.question_set_ids : OwnedBy(t.question_set_ids[i], t.created_by)

NoDuplicates(seq) == \A i, j \in DOMAIN seq : i # j => seq[i] # seq[j]

\* C19 as claimed: in every state each test's question_ids has no duplicates
\* and is, as a set, the union of the question_ids of the sets it names, also
\* after a question set is updated or deleted.
C19_IdsAreUnionOfSets ==
    \A t \in tests :
        /\ NoDuplicates(t.question_ids)
        /\ SeqToSet(t.question_ids) = CombinedIds(t.question_set_ids)

\* a stored test is never changed or removed
TestsKept == \A t \in tests : t \in tests'

\* a test that is stored holds the union of its sets' ids of that moment
UnionAtCreation ==
    \A t \in tests' \ tests :
        /\ question_sets' = question_sets
        /\ SeqToSet(t.question_ids) = CombinedIds(t.question_set_ids)

\* C19: each test's question_ids has no duplicates and is, as a set, the union
\* of the question_ids its sets had when the test was created; updating or
\* deleting a question set leaves every stored test as it is.
C19_IdsAreUnionAtCreation ==
    [](\A t \in tests : NoDuplicates(t.question_ids))
      /\ [][TestsKept /\ UnionAtCreation]_vars

\* a test made of two sets that shared a question, one of which is gone since
C19_Witness ==
    \E t \in tests :
        /\ t.question_set_ids = <<"qs1", "qs3">>
        /\ Len(t.question_ids) = 4
        /\ \E s \in question_sets : s.id = "qs3" /\ s.question_ids = <<"q3", "q3">>
        /\ \A s \in question_sets : s.id # "qs1"

\* ---------------------------------------------------------------- list-tests claims
\* a student set with this id holds the email
InStudentSet(setId, email) == \E set \in StudentSets : set.id = setId /\ email \in set.students

\* C20: list-tests returns to a staff caller the tests of the caller's
\* institution that the caller created, to a student the tests of the
\* student's institution that are public or assigned to a student set holding
\* the student's email, and is forbidden to every other role.
C20_ListTestsVisibility ==
    \A u \in Callers :
        LET o == ListTestsOutcome(tests, u) IN
        CASE u.role = "staff" ->
               /\ o.status = 200
               /\ o.tests = { t \in tests : t.institution = u.institution
                                             /\ t.created_by = u.email }
          [] u.role = "student" ->
               /\ o.status = 200
               /\ \A t \in tests :
                      t \in o.tests <=>
                          /\ t.institution = u.institution
                          /\ \/ t.is_public
                             \/ \E id \in t.assigned_student_sets : InStudentSet(id, u.email)
               /\ o.tests \subseteq tests
          [] OTHER -> o.status = 403 /\ o.tests = {}

\* two tests of one institution by two creators: one private and assigned to
\* a set of the student's, one private and assigned to another set; and a
\* public test of the other institution
C20_Witness ==
    \E t1, t2, t3 \in tests :
        /\ t1.created_by = Tina /\ ~t1.is_public /\ "ss1" \in t1.assigned_student_sets
        /\ t2.created_by = Raj /\ ~t2.is_public /\ t2.assigned_student_sets = {"ss2"}
        /\ t3.created_by = Yara /\ t3.is_public
        /\ ListTestsOutcome(tests, [email |-> SamX, institution |-> "x", role |-> "student"]).tests
             = {t1}
        /\ ListTestsOutcome(tests, TinaUser).tests = {t1}

\* ---------------------------------------------------------------- review claims
\* the caller is the student of the attempt or the creator of its test
MayRead(u, a) ==
    \/ u.role = "student" /\ a.student_email = u.email
    \/ u.role = "staff" /\ \E t \in tests : t.id = a.test_id /\ t.created_by = u.email

\* C21: attempt review and list-attempts-for-test answer forbidden, and return
\* no attempt, to a student who does not own the attempt, to a staff member
\* who did not create its test and to any other role; get-attempt and
\* list-my-attempts return only rows whose student_email is the caller's.
C21_AttemptReadAccess ==
    /\ \A u \in Callers, a \in test_attempts :
         LET review == ReviewOutcome(test_attempts, u, a.id)
             list == ListTestAttemptsOutcome(test_attempts, u, a.test_id)
         IN /\ ~MayRead(u, a) => review.status = 403 /\ list.status = 403
            /\ a \in review.attempts \cup list.attempts => MayRead(u, a)
            /\ MayRead(u, a) => review.status = 200 /\ review.attempts = {a}
    /\ \A u \in Callers :
         /\ \A a \in ListMyAttemptsOutcome(test_attempts, u).attempts :
                a.student_email = u.email
         /\ \A testId \in TestIdInputs :
                LET o == GetAttemptOutcome(test_attempts, u, testId) IN
                o.res.status = 200 =>
                    \A a \in o.rows : a.id = o.res.attemptId => a.student_email = u.email

\* both students hold an attempt on the test of one staff member: each reads
\* their own and is refused the other's, the creator reads both
C21_Witness ==
    \E a, b \in test_attempts :
        /\ a.student_email = SamX /\ b.student_email = SamY /\ b.status = "submitted"
        /\ ReviewOutcome(test_attempts, TinaUser, b.id).attempts = {b}
        /\ ListTestAttemptsOutcome(test_attempts, TinaUser, a.test_id).attempts = {a, b}
        /\ ReviewOutcome(test_attempts, RajUser, b.id).status = 403
        /\ \E u \in Users :
               /\ u.email = SamX
               /\ ReviewOutcome(test_attempts, u, b.id).status = 403
               /\ ListMyAttemptsOutcome(test_attempts, u).attempts = {a}

\* ---------------------------------------------------------------- failure claims
\* the start window of the test is open now
WindowOpen(t) == ~WindowClosed(t, now)

\* C22: in start, get-attempt, autosave and submit of a student, a failed
\* lookup of the attempt is answered with an internal error, no request with a
\* failed call changes test_attempts, and a request whose write fails is
\* answered with an internal error.
C22_FailuresAreInternalErrors ==
    \A u \in Students, t \in tests, call \in {"lookup", "backfill", "insert", "update"} :
        LET start == StartWithFailures(test_attempts, u, t.id, now, 0, {call})
            get == GetAttemptWithFailures(test_attempts, u, t.id, {call})
            save == [body \in SaveBodies |->
                       AutosaveWithFailures(test_attempts, u, t.id, body, now, {call})]
            submit == [body \in SubmitBodies |->
                         SubmitWithFailures(test_attempts, u, t.id, body, now, {call})]
            wrote(o) == o.rows # test_attempts
        IN
        /\ call = "lookup" =>
             /\ WindowOpen(t) => start.res.status = 500
             /\ get.res.status = 500
             /\ \A body \in SaveBodies : save[body].res.status = 500
             /\ \A body \in SubmitBodies : submit[body].res.status = 500
        /\ ~wrote(start) /\ ~wrote(get)
        /\ \A body \in SaveBodies : ~wrote(save[body])
        /\ \A body \in SubmitBodies : ~wrote(submit[body])
        /\ (call = "backfill" /\ wrote(GetAttemptOutcome(test_attempts, u, t.id))) =>
               get.res.status = 500
        /\ (call = "insert" /\ wrote(StartOutcome(test_attempts, u, t.id, now, 0))
              /\ AttemptOf(test_attempts, t.id, u.email) = {}) =>
               start.res.status = 500
        /\ call = "update" =>
             /\ \A body \in SaveBodies :
                    wrote(AutosaveOutcome(test_attempts, u, t.id, body, now)) =>
                        save[body].res.status = 500
             /\ \A body \in SubmitBodies :
                    wrote(SubmitOutcome(test_attempts, u, t.id, body, now)) =>
                        submit[body].res.status = 500

\* ---------------------------------------------------------------- not-found claims
\* without a row for (test, student), autosave, submit and get-attempt answer
\* not-found and leave the table as it is
NotFoundWithoutRow ==
    \A u \in Students, testId \in TestIdInputs :
        RowsOf(test_attempts, testId, u.email) = {} =>
            /\ \A body \in SaveInputs :
                 LET o == AutosaveOutcome(test_attempts, u, testId, body, now) IN
                 o.res.status = 404 /\ o.rows = test_attempts
            /\ \A body \in SubmitBodies :
                 LET o == SubmitOutcome(test_attempts, u, testId, body, now) IN
                 o.res.status = 404 /\ o.rows = test_attempts
            /\ LET o == GetAttemptOutcome(test_attempts, u, testId) IN
               o.res.status = 404 /\ o.rows = test_attempts

\* a step that adds a row is a successful start of a student without a row
OnlyStartCreates ==
    (\E b \in test_attempts' : \A a \in test_attempts : a.id # b.id) =>
        \E u \in Students, t \in tests, dbLag \in DbLags :
            LET o == StartOutcome(test_attempts, u, t.id, now, dbLag) IN
            /\ RowsOf(test_attempts, t.id, u.email) = {}
            /\ o.res.status = 200
            /\ test_attempts' = o.rows
            /\ Cardinality(test_attempts') = Cardinality(test_attempts) + 1

\* every row is there in the next state
NoRowDeleted == \A a \in test_attempts : \E b \in test_attempts' : b.id = a.id

\* C23: when no attempt row exists for (test, student), autosave, submit and
\* get-attempt each fail with not-found and create no row; only start creates
\* attempt rows, and no operation deletes one.
C23_OnlyStartCreatesRows ==
    [](NotFoundWithoutRow) /\ [][OnlyStartCreates /\ NoRowDeleted]_vars

\* one student has started the test, the other has not and is told so
C23_Witness ==
    \E u \in Students, t \in tests, a \in test_attempts :
        /\ a.test_id = t.id /\ a.student_email # u.email /\ a.last_saved_at # Null
        /\ RowsOf(test_attempts, t.id, u.email) = {}
        /\ SubmitOutcome(test_attempts, u, t.id, CHOOSE body \in SubmitBodies : TRUE, now).res.error
             = "Test attempt not found"

\* ---------------------------------------------------------------- submit claims
\* the list a submit request carries: the empty list when it carries none
RequestList(body) == IF body.answers.kind = "array" THEN body.answers.list ELSE <<>>

\* the table with other answers stored in the row
WithStoredAnswers(a, stored) == (test_attempts \ {a}) \cup {[a EXCEPT !.answers = stored]}

\* C24: the score, total and result stored by a successful submit are those of
\* the request's answers list whatever answers the row held, and the stored
\* answers are the request's list, the empty list when it carries none.
C24_GradeFromRequestOnly ==
    \A u \in Students, a \in test_attempts, t \in tests, body \in SubmitInputs :
        LET o == SubmitOutcome(test_attempts, u, t.id, body, now)
            graded == GradeSubmission(t.question_ids, RequestList(body))
        IN
        (a.student_email = u.email /\ a.test_id = t.id /\ o.res.status = 200) =>
            \E r \in o.rows :
                /\ r.id = a.id
                /\ r.score = graded.score /\ r.total = graded.total
                /\ r.result = [present |-> TRUE, perQuestion |-> graded.perQuestion]
                /\ r.answers = RequestList(body)
                /\ \A stored \in {<<>>, AnswersA, AnswersB} :
                       \E q \in SubmitOutcome(WithStoredAnswers(a, stored), u, t.id, body, now).rows :
                           /\ q.id = a.id
                           /\ q.score = r.score /\ q.total = r.total /\ q.result = r.result
                           /\ q.answers = r.answers

\* ---------------------------------------------------------------- identifier claims
\* C25: the identifiers generated for tests and attempts are distinct, also
\* for two users with the same local part and within one millisecond: no
\* create-test and no start fails on a primary-key clash.
C25_IdsNeverClash ==
    /\ \A u \in Students, t \in tests, dbLag \in DbLags :
         LET o == StartOutcome(test_attempts, u, t.id, now, dbLag) IN
         /\ o.res.status # 500
         /\ (RowsOf(test_attempts, t.id, u.email) = {} /\ o.res.status = 200) =>
                \E a \in o.rows : a.id = o.res.attemptId /\ a.student_email = u.email
    /\ \A u \in Staff, body \in CreateBodies :
         \A ordered \in NamedSets(body.questionSetIds) :
           CreateTestOutcome(tests, u, body, ordered, now).res.status # 500

\* ---------------------------------------------------------------- interleaving claims
\* request p completes in this step, and it is of this kind
Completes(p, kind) == inflight[p].pc = kind /\ inflight'[p].pc = "idle"

\* C26: under every interleaving of an autosave and a submit of one attempt,
\* the step in which the autosave writes leaves the answers, question_status
\* and last_question_index of every submitted row as they are.
C26_AutosaveNeverWritesSubmitted ==
    [][\A p \in Procs :
         Completes(p, "autosave") =>
             \A a \in test_attempts :
                 a.status = "submitted" =>
                     \A b \in test_attempts' :
                         b.id = a.id =>
                             /\ b.answers = a.answers
                             /\ b.question_status = a.question_status
                             /\ b.last_question_index = a.last_question_index]_vars

\* C27: under every interleaving of two submits of one attempt, the step in
\* which a submit writes leaves every row that is already submitted as it
\* is: the grade of the first successful submit is not overwritten.
C27_OneSubmitWins ==
    [][\A p \in Procs :
         Completes(p, "submit") =>
             \A a \in test_attempts :
                 a.status = "submitted" => a \in test_attempts']_vars

\* ---------------------------------------------------------------- visibility claims
\* the tests list-tests shows the student
VisibleTo(u) == ListTestsOutcome(tests, u).tests

\* C28: start creates an attempt row only on a test that list-tests shows the
\* student (of the student's institution, and public or assigned to a student
\* set holding the student), so every attempt row references a test visible
\* to its student.
C28_StartOnlyVisibleTests ==
    /\ \A u \in Students, t \in tests, dbLag \in DbLags :
         LET o == StartOutcome(test_attempts, u, t.id, now, dbLag) IN
         o.rows # test_attempts => t \in VisibleTo(u)
    /\ \A a \in test_attempts :
         \E u \in Students :
             u.email = a.student_email /\ \E t \in VisibleTo(u) : t.id = a.test_id

\* ---------------------------------------------------------------- progress claims
\* C29: in every state reached through interleaved start requests, for every
\* in_progress row of (test, student) whose test exists, get-attempt by the
\* student returns an attempt and submit by the student succeeds and leaves
\* the row submitted.
C29_InProgressNeverStuck ==
    \A u \in Students, a \in test_attempts :
        (a.student_email = u.email /\ a.status = "in_progress"
         /\ \E t \in tests : t.id = a.test_id) =>
            /\ GetAttemptOutcome(test_attempts, u, a.test_id).res.status = 200
            /\ \A body \in SubmitBodies :
                   LET o == SubmitOutcome(test_attempts, u, a.test_id, body, now) IN
                   /\ o.res.status = 200
                   /\ \E r \in o.rows : r.id = a.id /\ r.status = "submitted"

\* ---------------------------------------------------------------- served-question claims
\* the questions load-test-questions sends the student that submit would score
ScorableServed(u, testId) ==
    { q \in LoadQuestionsOutcome(tests, u, testId).questions :
        QuestionType(q) \in {"mcq_single", "numerical"} }

\* C30: the questions graded at submit are the scorable questions that
\* load-test-questions serves for the test: total counts them and
\* result.perQuestion lists them, and a question restricted to institutions
\* other than the test's is in neither.
C30_GradedAreServed ==
    \A u \in Students, a \in test_attempts :
        (a.student_email = u.email /\ a.status = "submitted") =>
            LET served == ScorableServed(u, a.test_id) IN
            /\ { e.questionId : e \in a.result.perQuestion } = { q.id : q \in served }
            /\ a.total = Cardinality(served)
====
